---- MODULE Spec2Model ----
(***************************************************************************)
(* Model of the proof verifier and the solution verifier of alphageometry  *)
(* (proof_verifier.py, solution_verifier.py).                              *)
(*                                                                         *)
(* Texts are sequences of one-character strings, so that the Python string *)
(* operations of the source (strip, rstrip, split, replace, in) are        *)
(* modelled by what they do to the characters.                             *)
(***************************************************************************)
EXTENDS Integers, Sequences, FiniteSets, TLC

VARIABLES entry, problem_txt, proof_dsl, solution_txt, pc, result, ret,
          steps, i, current_context, global_goal_dsl, bfs, memo, calls,
          call, calls1, full_problem_txt, g

vars == <<entry, problem_txt, proof_dsl, solution_txt, pc, result, ret,
          steps, i, current_context, global_goal_dsl, bfs, memo, calls,
          call, calls1, full_problem_txt, g>>

(***************************************************************************)
(* Bounds of the model.                                                    *)
(***************************************************************************)
MaxProblemLen == 4
MaxSolutionLen == 3
MaxSteps == 3
MaxRaise == 2
MaxClauses == 2

(***************************************************************************)
(* Python string operations.                                               *)
(***************************************************************************)
\* the characters str.strip() and str.split() take for whitespace, as far as
\* a string of this language can hold them: U+0009 to U+000D, U+001C to
\* U+001F, U+0020, U+0085, U+00A0 and U+1680 (the spaces from U+2000 on
\* cannot be written here and are in no text of the model)
Whitespace ==
  {" ", "\n", "\t", "\r", "\f", "", "", "", "", "",
   "", " ", " "}

\* Python's None, for an absent solution_txt.
None == <<"<None>">>

RECURSIVE lstrip(_)
lstrip(s) ==
  IF s # <<>> /\ Head(s) \in Whitespace THEN lstrip(Tail(s)) ELSE s

RECURSIVE rstrip_ws(_)
rstrip_ws(s) ==
  IF s # <<>> /\ s[Len(s)] \in Whitespace
  THEN rstrip_ws(SubSeq(s, 1, Len(s) - 1)) ELSE s

\* str.strip()
strip(s) == rstrip_ws(lstrip(s))

\* str.rstrip(ch): drops the whole run of ch at the end
RECURSIVE rstrip(_, _)
rstrip(s, ch) ==
  IF s # <<>> /\ s[Len(s)] = ch
  THEN rstrip(SubSeq(s, 1, Len(s) - 1), ch) ELSE s

Range(s) == {s[k] : k \in 1..Len(s)}

\* ch in s
Contains(s, ch) == \E k \in 1..Len(s) : s[k] = ch

\* index of the first ch of s (0 when there is none)
FirstIndex(s, ch) ==
  IF Contains(s, ch)
  THEN CHOOSE k \in 1..Len(s) : s[k] = ch /\ \A j \in 1..(k - 1) : s[j] # ch
  ELSE 0

\* s.split(ch, 1) for a text that contains ch
split_first(s, ch) ==
  <<SubSeq(s, 1, FirstIndex(s, ch) - 1),
    SubSeq(s, FirstIndex(s, ch) + 1, Len(s))>>

\* s.split(ch): "" splits into one empty piece
RECURSIVE split(_, _)
split(s, ch) ==
  IF ~Contains(s, ch) THEN <<s>>
  ELSE <<SubSeq(s, 1, FirstIndex(s, ch) - 1)>>
         \o split(SubSeq(s, FirstIndex(s, ch) + 1, Len(s)), ch)

\* s.replace(a, b) for single characters
replace(s, a, b) == [k \in 1..Len(s) |-> IF s[k] = a THEN b ELSE s[k]]

\* s.split(): the words between runs of whitespace
RECURSIVE words(_)
words(s) ==
  LET t == lstrip(s)
      n == IF \E k \in 1..Len(t) : t[k] \in Whitespace
           THEN CHOOSE k \in 1..Len(t) :
                  /\ t[k] \in Whitespace
                  /\ \A j \in 1..(k - 1) : t[j] \notin Whitespace
           ELSE Len(t) + 1
  IN IF t = <<>> THEN <<>>
     ELSE <<SubSeq(t, 1, n - 1)>> \o words(SubSeq(t, n, Len(t)))

\* sub in s
IsSubstring(sub, s) ==
  \E k \in 0..(Len(s) - Len(sub)) : SubSeq(s, k + 1, k + Len(sub)) = sub

\* [c.strip() for c in pieces if c.strip()]
RECURSIVE StripNonEmpty(_)
StripNonEmpty(pieces) ==
  IF pieces = <<>> THEN <<>>
  ELSE IF strip(Head(pieces)) = <<>> THEN StripNonEmpty(Tail(pieces))
       ELSE <<strip(Head(pieces))>> \o StripNonEmpty(Tail(pieces))

(***************************************************************************)
(* SolutionVerifier.inject_solution                                        *)
(***************************************************************************)
inject_solution_keep_premise_semicolon(p, s) ==
  LET prob == strip(p)
      sol == IF s = None THEN <<>> ELSE rstrip(strip(s), ";")
  IN IF s = None \/ s = <<>> THEN prob
     ELSE IF sol = <<>> THEN prob
     ELSE IF ~Contains(prob, "?") THEN prob \o <<";", " ">> \o sol
     ELSE LET left == split_first(prob, "?")[1]
              right == split_first(prob, "?")[2]
          IN strip(left) \o <<";", " ">> \o sol
               \o <<" ", "?", " ">> \o strip(right)

inject_solution_keep_solution_semicolon(p, s) ==
  LET prob == strip(p)
      sol == IF s = None THEN <<>> ELSE strip(s)
  IN IF s = None \/ s = <<>> THEN prob
     ELSE IF sol = <<>> THEN prob
     ELSE IF ~Contains(prob, "?") THEN rstrip(prob, ";") \o <<";", " ">> \o sol
     ELSE LET left == split_first(prob, "?")[1]
              right == split_first(prob, "?")[2]
          IN rstrip(strip(left), ";") \o <<";", " ">> \o sol
               \o <<" ", "?", " ">> \o strip(right)

inject_solution_goal_first(p, s) ==
  LET prob == strip(p)
      sol == IF s = None THEN <<>> ELSE rstrip(strip(s), ";")
  IN IF s = None \/ s = <<>> THEN prob
     ELSE IF sol = <<>> THEN prob
     ELSE rstrip(prob, ";") \o <<";", " ">> \o sol

inject_solution(p, s) ==
  LET prob == strip(p)
      sol == IF s = None THEN <<>> ELSE rstrip(strip(s), ";")
  IN IF s = None \/ s = <<>> THEN prob
     ELSE IF sol = <<>> THEN prob
     ELSE IF ~Contains(prob, "?") THEN rstrip(prob, ";") \o <<";", " ">> \o sol
     ELSE LET left == split_first(prob, "?")[1]
              right == split_first(prob, "?")[2]
          IN rstrip(strip(left), ";") \o <<";", " ">> \o sol
               \o <<" ", "?", " ">> \o strip(right)

(***************************************************************************)
(* Program constants.                                                      *)
(***************************************************************************)
\* max_level of a derivation step's check (verify_proof)
StepMaxLevel == 3
\* max_level of the final goal check (verify_proof)
GoalMaxLevel == 10

(***************************************************************************)
(* The engine behind _run_bfs_check and verify (problem.py, graph.py,      *)
(* dd.py, ddar.py).  Its answer to a check is arbitrary: every check draws *)
(* a profile, whatever an earlier check of the same text was answered (a   *)
(* graph build places its points at random and a pass is cut off by the    *)
(* clock).  memo keeps what every text checked so far was answered.        *)
(***************************************************************************)
\* the definition table knows every constructor but x
BuildOK(txt) == ~Contains(txt, "x")

\* Problem.from_txt leaves goal = None for a text without goal separator or
\* without goal text
ProblemGoalIsNone(txt) ==
  ~Contains(txt, "?") \/ strip(split_first(txt, "?")[2]) = <<>>

\* levels at which the target may first hold: at once, at the cap of a step
\* check, at the cap of the final check (above the cap of a step check),
\* and above every cap
NeedLevels ==
  {0, StepMaxLevel, GoalMaxLevel, GoalMaxLevel + 1}

\* levels after which a search that never reaches its target is saturated
SaturationLevels == {1}

NoProfile == [kind |-> "none", need |-> 0, raiseAt |-> 0]

\* kind: parse_fail  Problem.from_txt raises
\*       build_fail  Graph.build_problem raises
\*       names_raise g.names2nodes(p.goal.args) raises
\*       check_raise g.check raises
\*       pass_raise  the rule-engine pass of level raiseAt raises
\*       ok          the target holds once `need` passes have run
\*       saturated   the target never holds, and the passes above level
\*                   `need` find nothing new
EngineProfiles(txt) ==
  IF ~BuildOK(txt)
  THEN {[kind |-> "build_fail", need |-> 0, raiseAt |-> 0]}
  ELSE {[kind |-> k, need |-> 0, raiseAt |-> 0] :
           k \in {"parse_fail", "build_fail", "names_raise", "check_raise"}}
       \cup {[kind |-> "pass_raise", need |-> 0, raiseAt |-> r] :
           r \in 1..MaxRaise}
       \cup {[kind |-> "ok", need |-> n, raiseAt |-> 0] : n \in NeedLevels}
       \cup {[kind |-> "saturated", need |-> n, raiseAt |-> 0] :
           n \in SaturationLevels}

\* f"{context_str} ? {target_predicate_str}"
temp_prob_txt(context_str, target) ==
  context_str \o <<" ", "?", " ">> \o target

\* the premise of the truncated second call, "steps 1..k are individually
\* valid": a check the first call saw answered is answered the same there.
\* No other check is bound by an earlier answer.
Memoized(txt) == call = 2 /\ \E m \in memo : m.txt = txt
MemoOf(txt) == (CHOOSE m \in memo : m.txt = txt).profile

(***************************************************************************)
(* ProofVerifier                                                           *)
(***************************************************************************)
is_construction(dsl) == Contains(dsl, "=")

Msg_blank(text) == [text |-> "", step_num |-> 0, step |-> <<>>]

\* result["error_msg"] = a fixed text
Msg(text) == [text |-> text, step_num |-> 0, step |-> <<>>]

\* f"Step {step_num} Logic Gap: '{step}' not derivable from current context."
LogicGapMsg(step_num, step) ==
  [text |-> "Logic Gap", step_num |-> step_num, step |-> step]

InitResult ==
  [is_valid |-> FALSE, error_msg |-> Msg(""), steps_passed |-> 0,
   goal_reached |-> FALSE]

\* args: the two texts as the caller passed them; context_str, target: the
\* same after strip().rstrip(";"); step: the 1-based proof step the check
\* is for, 0 for the final goal check; passes: the rule-engine passes run so
\* far; idle: those of them that yielded no new fact of any kind
NoFrame ==
  [args |-> <<>>, context_str |-> <<>>, target |-> <<>>, max_level |-> 0,
   level |-> 0, passes |-> 0, idle |-> 0, profile |-> NoProfile,
   step |-> 0]

\* the graph of one check: the names of its points, the facts that hold,
\* each with the rule name and level of its justification, and the facts
\* that were integrated into its algebraic tables
NoGraph == [nodes |-> {}, facts |-> {}, integrated |-> {}]

\* prems of verify_proof: the text before the first '?'
PremsOf(txt) == IF Contains(txt, "?") THEN split_first(txt, "?")[1] ELSE txt

\* global_goal_dsl of verify_proof: the text after the first '?'
GoalOf(txt) == IF Contains(txt, "?") THEN split_first(txt, "?")[2] ELSE <<>>

\* one entry of the log of _run_bfs_check calls
CallRecord(frame, r) ==
  [step |-> frame.step, context_str |-> frame.args[1],
   target |-> frame.args[2], max_level |-> frame.max_level, ret |-> r,
   passes |-> frame.passes, kind |-> frame.profile.kind,
   need |-> frame.profile.need]

(***************************************************************************)
(* ProofVerifier._run_bfs_check                                            *)
(***************************************************************************)
\* the value _run_bfs_check returns goes to its call site in verify_proof
BfsReturn(value) ==
  /\ ret' = value
  /\ pc' = IF bfs.step = 0 THEN "goal_ret" ELSE "step_ret"
  /\ calls' = Append(calls, CallRecord(bfs, IF value THEN "True" ELSE "False"))
  /\ bfs' = NoFrame

\* an exception leaves _run_bfs_check and verify_proof uncaught
BfsRaise ==
  /\ pc' = "raised"
  /\ calls' = Append(calls, CallRecord(bfs, "raise"))
  /\ UNCHANGED <<ret, bfs>>

FreshGraphPasses_carried ==
  IF calls # <<>> THEN calls[Len(calls)].passes ELSE 0

\* the graph of gh.Graph.build_problem is new: no pass has run on it
FreshGraphPasses == 0

\* the call: strip the two texts, parse, build the graph, load the context
run_bfs_check(context_str, target_predicate_str, max_level, step) ==
  LET target == rstrip(strip(target_predicate_str), ";")
      ctx == rstrip(strip(context_str), ";")
      txt == temp_prob_txt(ctx, target)
  IN \E profile \in (IF Memoized(txt) THEN {MemoOf(txt)}
                     ELSE EngineProfiles(txt)) :
       LET frame == [args |-> <<context_str, target_predicate_str>>,
                     context_str |-> ctx, target |-> target,
                     max_level |-> max_level, level |-> 1,
                     passes |-> FreshGraphPasses, idle |-> 0,
                     profile |-> profile, step |-> step]
       IN /\ memo' = memo \cup {[txt |-> txt, profile |-> profile]}
          /\ IF profile.kind \in {"parse_fail", "build_fail"}
             THEN /\ ret' = FALSE
                  /\ pc' = IF step = 0 THEN "goal_ret" ELSE "step_ret"
                  /\ calls' = Append(calls, CallRecord(frame, "False"))
                  /\ bfs' = NoFrame
             ELSE /\ pc' = "bfs_loop"
                  /\ bfs' = frame
                  /\ UNCHANGED <<ret, calls>>

goal_holds_late ==
  /\ bfs.profile.kind = "ok"
  /\ bfs.passes > bfs.profile.need

\* goal_holds() of a frame whose names resolve
goal_holds ==
  /\ bfs.profile.kind = "ok"
  /\ bfs.passes >= bfs.profile.need

\* for level in range(1, max_level + 1): if goal_holds(): return True
BfsLoopHead ==
  /\ pc = "bfs_loop"
  /\ IF bfs.level > bfs.max_level
     THEN pc' = "bfs_final" /\ UNCHANGED <<ret, bfs, calls>>
     ELSE IF bfs.profile.kind = "names_raise" THEN BfsRaise
     ELSE IF goal_holds THEN BfsReturn(TRUE)
     ELSE pc' = "bfs_pass" /\ UNCHANGED <<ret, bfs, calls>>
  /\ UNCHANGED <<entry, problem_txt, proof_dsl, solution_txt, result, steps,
                 i, current_context, global_goal_dsl, memo, call, calls1,
                 g, full_problem_txt>>

\* added, derives, eq4s of the pass of this level are all empty
PassYieldsNothing ==
  bfs.profile.kind = "saturated" /\ bfs.level > bfs.profile.need

\* dd.bfs_one_level and dd.apply_derivations of one level
BfsPass ==
  /\ pc = "bfs_pass"
  /\ IF bfs.profile.kind = "pass_raise" /\ bfs.profile.raiseAt = bfs.level
     THEN BfsRaise
     ELSE /\ bfs' = [bfs EXCEPT !.passes = @ + 1,
                              !.idle = IF PassYieldsNothing THEN @ + 1
                                       ELSE @]
          /\ pc' = "bfs_post"
          /\ UNCHANGED <<ret, calls>>
  /\ UNCHANGED <<entry, problem_txt, proof_dsl, solution_txt, result, steps,
                 i, current_context, global_goal_dsl, memo, call, calls1,
                 g, full_problem_txt>>

\* if goal_holds(): return True, at the end of one level
BfsPost ==
  /\ pc = "bfs_post"
  /\ IF goal_holds THEN BfsReturn(TRUE)
     ELSE /\ bfs' = [bfs EXCEPT !.level = @ + 1]
          /\ pc' = "bfs_loop"
          /\ UNCHANGED <<ret, calls>>
  /\ UNCHANGED <<entry, problem_txt, proof_dsl, solution_txt, result, steps,
                 i, current_context, global_goal_dsl, memo, call, calls1,
                 g, full_problem_txt>>

\* return goal_holds(), after the last level
BfsFinal ==
  /\ pc = "bfs_final"
  /\ BfsReturn(goal_holds)
  /\ UNCHANGED <<entry, problem_txt, proof_dsl, solution_txt, result, steps,
                 i, current_context, global_goal_dsl, memo, call, calls1,
                 g, full_problem_txt>>

(***************************************************************************)
(* ProofVerifier.verify_proof                                              *)
(***************************************************************************)
InitialContext_with_goal(txt) == strip(txt)

\* current_context = prems.strip()
InitialContext(txt) == strip(PremsOf(txt))

ProofSteps_keep_empty(dsl) == split(replace(dsl, "\n", ";"), ";")

\* steps of verify_proof
ProofSteps(dsl) == StripNonEmpty(split(replace(dsl, "\n", ";"), ";"))

FailedStepsPassed_one_based(idx) == idx + 1

\* result["steps_passed"] = i, of a failed derivation step
FailedStepsPassed(idx) == idx

HasNoGlobalGoal_never(goal) == FALSE

\* not global_goal_dsl.strip()
HasNoGlobalGoal(goal) == strip(goal) = <<>>

GoalVerdict_always(is_goal_reached) == TRUE

\* is_valid and goal_reached after the final check
GoalVerdict(is_goal_reached) == is_goal_reached

\* f"{current_context}; {step}"
ExtendContext(context, step) == context \o <<";", " ">> \o step

\* the split of the problem and of the proof, and the empty-proof return
VerifyProofStart ==
  /\ entry = "verify_proof"
  /\ pc = "start"
  /\ global_goal_dsl' = GoalOf(problem_txt)
  /\ current_context' = InitialContext(problem_txt)
  /\ steps' = ProofSteps(proof_dsl)
  /\ i' = 0
  /\ IF ProofSteps(proof_dsl) = <<>>
     THEN /\ result' = [InitResult EXCEPT
                          !.error_msg = Msg("No proof steps provided.")]
          /\ pc' = "done"
     ELSE /\ result' = InitResult
          /\ pc' = "loop"
  /\ UNCHANGED <<entry, problem_txt, proof_dsl, solution_txt, ret, bfs, memo,
                 calls, call, calls1, g, full_problem_txt>>

AlreadyInContext_never(step, context) == FALSE

\* step in current_context
AlreadyInContext(step, context) == IsSubstring(step, context)

\* a construction step: skipped when in the context, appended otherwise
ConstructionStep ==
  /\ pc = "loop"
  /\ i < Len(steps)
  /\ is_construction(steps[i + 1])
  /\ current_context' =
       IF AlreadyInContext(steps[i + 1], current_context)
       THEN current_context
       ELSE ExtendContext(current_context, steps[i + 1])
  /\ i' = i + 1
  /\ UNCHANGED <<entry, problem_txt, proof_dsl, solution_txt, pc, result, ret,
                 steps, global_goal_dsl, bfs, memo, calls, call, calls1,
                 g, full_problem_txt>>

\* a derivation step: the call of _run_bfs_check with max_level=3
DerivationStep ==
  /\ pc = "loop"
  /\ i < Len(steps)
  /\ ~is_construction(steps[i + 1])
  /\ run_bfs_check(current_context, steps[i + 1], StepMaxLevel, i + 1)
  /\ UNCHANGED <<entry, problem_txt, proof_dsl, solution_txt, result, steps,
                 i, current_context, global_goal_dsl, call, calls1, g,
                 full_problem_txt>>

\* the derivation step after its check returned
DerivationReturn ==
  /\ pc = "step_ret"
  /\ IF ret
     THEN /\ current_context' = ExtendContext(current_context, steps[i + 1])
          /\ i' = i + 1
          /\ pc' = "loop"
          /\ UNCHANGED result
     ELSE /\ result' = [result EXCEPT
                          !.error_msg = LogicGapMsg(i + 1, steps[i + 1]),
                          !.steps_passed = FailedStepsPassed(i)]
          /\ pc' = "done"
          /\ UNCHANGED <<current_context, i>>
  /\ UNCHANGED <<entry, problem_txt, proof_dsl, solution_txt, ret, steps,
                 global_goal_dsl, bfs, memo, calls, call, calls1, g,
                 full_problem_txt>>

\* after the loop: the no-goal return, or the call of the final goal check
AllStepsPassed ==
  /\ pc = "loop"
  /\ i = Len(steps)
  /\ IF HasNoGlobalGoal(global_goal_dsl)
     THEN /\ result' = [is_valid |-> TRUE, goal_reached |-> TRUE,
                        steps_passed |-> Len(steps),
                        error_msg |-> Msg("Verified (No global goal).")]
          /\ pc' = "done"
          /\ UNCHANGED <<ret, bfs, memo, calls>>
     ELSE /\ result' = [result EXCEPT !.steps_passed = Len(steps)]
          /\ run_bfs_check(current_context, strip(global_goal_dsl),
                           GoalMaxLevel, 0)
  /\ UNCHANGED <<entry, problem_txt, proof_dsl, solution_txt, steps, i,
                 current_context, global_goal_dsl, call, calls1, g,
                 full_problem_txt>>

\* the result after the final goal check returned
FinalGoalReturn ==
  /\ pc = "goal_ret"
  /\ result' =
       IF ret
       THEN [result EXCEPT
               !.is_valid = GoalVerdict(TRUE),
               !.goal_reached = GoalVerdict(TRUE),
               !.error_msg =
                  Msg("Success: All proof steps valid and goal reached.")]
       ELSE [result EXCEPT
               !.is_valid = GoalVerdict(FALSE),
               !.goal_reached = GoalVerdict(FALSE),
               !.error_msg =
                  Msg("All steps valid, but final goal NOT reached.")]
  /\ pc' = "done"
  /\ UNCHANGED <<entry, problem_txt, proof_dsl, solution_txt, ret, steps, i,
                 current_context, global_goal_dsl, bfs, memo, calls, call,
                 calls1, g, full_problem_txt>>

(***************************************************************************)
(* SolutionVerifier.verify                                                 *)
(***************************************************************************)
VerifyEarlyReturn_parse_only(parsed, txt) == ~parsed

\* except Exception: return False, and if p.goal is None: return False
VerifyEarlyReturn(parsed, txt) == ~parsed \/ ProblemGoalIsNone(txt)

\* inject, parse, and the two early returns; memo keeps what Problem.from_txt
\* answered for the injected text
VerifyInject ==
  /\ entry = "verify"
  /\ pc = "start"
  /\ full_problem_txt' = inject_solution(problem_txt, solution_txt)
  /\ \E parsed \in BOOLEAN :
       /\ memo' = {[txt |-> full_problem_txt',
                    profile |-> [kind |-> IF parsed THEN "ok"
                                          ELSE "parse_fail",
                                 need |-> 0, raiseAt |-> 0]]}
       /\ IF VerifyEarlyReturn(parsed, full_problem_txt')
          THEN ret' = FALSE /\ pc' = "done"
          ELSE ret' = ret /\ pc' = "sv_build"
  /\ UNCHANGED <<entry, problem_txt, proof_dsl, solution_txt, result, steps,
                 i, current_context, global_goal_dsl, bfs, calls, call,
                 calls1, g>>

\* gh.Graph.build_problem, outside any try: a construction it cannot build
\* raises out of verify
VerifyBuild ==
  /\ pc = "sv_build"
  /\ pc' = IF BuildOK(full_problem_txt) THEN "sv_solve" ELSE "raised"
  /\ UNCHANGED <<entry, problem_txt, proof_dsl, solution_txt, result, ret,
                 steps, i, current_context, global_goal_dsl, bfs, memo, calls,
                 call, calls1, g, full_problem_txt>>

\* ddar.solve, outside any try, and return status == 'solved'
VerifySolve ==
  /\ pc = "sv_solve"
  /\ \E status \in {"solved", "saturated", "raise"} :
       IF status = "raise" THEN ret' = ret /\ pc' = "raised"
       ELSE ret' = (status = "solved") /\ pc' = "done"
  /\ UNCHANGED <<entry, problem_txt, proof_dsl, solution_txt, result, steps,
                 i, current_context, global_goal_dsl, bfs, memo, calls, call,
                 calls1, g, full_problem_txt>>

\* one call of inject_solution on its own
InjectSolution ==
  /\ entry = "inject_solution"
  /\ pc = "start"
  /\ full_problem_txt' = inject_solution(problem_txt, solution_txt)
  /\ pc' = "done"
  /\ UNCHANGED <<entry, problem_txt, proof_dsl, solution_txt, result, ret,
                 steps, i, current_context, global_goal_dsl, bfs, memo, calls,
                 call, calls1, g>>

(***************************************************************************)
(* ProofVerifier._add_verified_predicates_to_graph, on a graph that keeps  *)
(* its facts with the rule name and level of their justification.          *)
(***************************************************************************)
\* predicate names that g.check knows, and those that g.add_piece knows
CheckKinds == {<<"p">>, <<"q">>, <<"r">>}
AddKinds == {<<"p">>, <<"q">>}

\* predicate names of the angle and ratio kinds, kept in algebraic tables
AlgebraKinds == {<<"q">>}

\* g.names2nodes(pred_args) finds every name
NamesResolve(graph, pred_args) ==
  \A k \in 1..Len(pred_args) : pred_args[k] \in graph.nodes

\* g.check(pred_name, nodes) of a known predicate name
Holds(graph, pred_name, pred_args) ==
  \E f \in graph.facts : f.pred = pred_name /\ f.args = pred_args

\* pr.EmptyDependency(level=0, rule_name="verified")
VerifiedDeps == [rule_name |-> "verified", level |-> 0]

\* g.add_piece(pred_name, nodes, deps=deps) of a known predicate name: the
\* fact is put into the graph, the algebraic tables are left alone
add_piece(graph, pred_name, pred_args, deps) ==
  [graph EXCEPT !.facts = @ \cup {[pred |-> pred_name, args |-> pred_args,
                                   rule_name |-> deps.rule_name,
                                   level |-> deps.level]}]

NeedsAssert_always(graph, pred_name, pred_args) == TRUE

\* if not g.check(pred_name, nodes)
NeedsAssert(graph, pred_name, pred_args) ==
  ~Holds(graph, pred_name, pred_args)

\* the body of the loop for one clause; `continue` and the swallowed
\* exceptions leave the graph as it is
LoadClause(graph, clause) ==
  LET parts == words(strip(clause))
      pred_name == parts[1]
      pred_args == Tail(parts)
  IN IF IsSubstring(<<" ", "=", " ">>, clause) THEN graph
     ELSE IF Len(parts) < 2 THEN graph
     ELSE IF ~NamesResolve(graph, pred_args) THEN graph
     ELSE IF pred_name \notin CheckKinds THEN graph
     ELSE IF ~NeedsAssert(graph, pred_name, pred_args) THEN graph
     ELSE IF pred_name \notin AddKinds THEN graph
     ELSE add_piece(graph, pred_name, pred_args, VerifiedDeps)

\* clauses = [c.strip() for c in context_str.split(';') if c.strip()]
LoaderStart ==
  /\ entry = "loader"
  /\ pc = "start"
  /\ steps' = StripNonEmpty(split(current_context, ";"))
  /\ i' = 0
  /\ pc' = "ld_loop"
  /\ UNCHANGED <<entry, problem_txt, proof_dsl, solution_txt, result, ret,
                 current_context, global_goal_dsl, bfs, memo, calls, call,
                 calls1, g, full_problem_txt>>

\* for clause in clauses: one clause
LoaderClause ==
  /\ entry = "loader"
  /\ pc = "ld_loop"
  /\ i < Len(steps)
  /\ g' = LoadClause(g, steps[i + 1])
  /\ i' = i + 1
  /\ UNCHANGED <<entry, problem_txt, proof_dsl, solution_txt, pc, result, ret,
                 steps, current_context, global_goal_dsl, bfs, memo, calls,
                 call, calls1, full_problem_txt>>

\* the loop is over: the loader returns None
LoaderReturn ==
  /\ entry = "loader"
  /\ pc = "ld_loop"
  /\ i = Len(steps)
  /\ pc' = "done"
  /\ UNCHANGED <<entry, problem_txt, proof_dsl, solution_txt, result, ret,
                 steps, i, current_context, global_goal_dsl, bfs, memo, calls,
                 call, calls1, g, full_problem_txt>>

(***************************************************************************)
(* Inputs.                                                                 *)
(***************************************************************************)
RECURSIVE Join(_, _)
Join(pieces, sep) ==
  IF pieces = <<>> THEN <<>>
  ELSE IF Len(pieces) = 1 THEN pieces[1]
  ELSE pieces[1] \o sep \o Join(Tail(pieces), sep)

\* premises, constructions (k is a known constructor, x is not),
\* derivations and a goal
PremA == <<"a", " ", "=", " ", "t">>
ConsK == <<"d", " ", "=", " ", "k">>
ConsX == <<"e", " ", "=", " ", "x">>
DerivP == <<"p", " ", "a">>
DerivQ == <<"q", " ", "a">>
GoalG == <<"g", " ", "a">>

Problems ==
  { PremA,
    PremA \o <<" ", "?", " ">> \o GoalG,
    PremA \o <<";", " ">> \o ConsK \o <<" ", "?", " ">> \o GoalG,
    <<"\t">> \o PremA \o <<" ", "?", "\t">> }

StepPool == {ConsK, ConsX, DerivP}

StepSeqs == UNION {[1..n -> StepPool] : n \in 1..MaxSteps}

\* proofs without a step
BlankProofs ==
  {<<>>, <<" ">>, <<"\t">>, <<";">>, <<" ", ";", "\n", ";", " ">>}

\* proofs whose steps are separated by newlines and empty clauses
NewlineProofs ==
  { ConsK \o <<"\n">> \o DerivP,
    <<" ">> \o DerivP \o <<";", "\n">> \o ConsX \o <<";">> }

\* a proof with two different derivations around a construction
MixedProofs == {Join(<<DerivP, ConsK, DerivQ>>, <<";", " ">>)}

\* a proof whose one derivation step holds two sub-predicates
CommaProofs == {DerivP \o <<",", " ">> \o DerivQ}

Proofs ==
  BlankProofs \cup NewlineProofs \cup MixedProofs \cup CommaProofs
    \cup {Join(q, <<";", " ">>) : q \in StepSeqs}

Solutions ==
  {None, <<>>, <<";">>, ConsK, ConsX \o <<";">>, DerivP \o <<"?">>}

\* clauses of a context given to the loader: a construction, a construction
\* written without blanks, a predicate that holds or can be asserted, one
\* on a point that may be missing, one of a kind g.check does not know, one
\* of a kind only g.check knows, one without argument, and one of an
\* angle kind
LoaderPool ==
  {ConsK, <<"e", "=", "k">>, DerivP, <<"p", " ", "d">>, <<"u", " ", "a">>,
   <<"r", " ", "a">>, <<"p">>, DerivQ}

LoaderContexts ==
  {Join(<<PremA>> \o q, <<";", " ">>) :
     q \in UNION {[1..n -> LoaderPool] : n \in 0..MaxClauses}}

\* the points of a graph built from a context: one for each construction
BuiltNodes(context) ==
  {<<c[1]>> : c \in {d \in Range(StripNonEmpty(split(context, ";"))) :
                       IsSubstring(<<" ", "=", " ">>, d)}}

\* facts the build may have put into the graph
BuildFacts ==
  {[pred |-> <<"p">>, args |-> <<<<"a">>>>, rule_name |-> "build",
    level |-> 0]}

Strings(alphabet, n) == UNION {[1..k -> alphabet] : k \in 0..n}

ProblemAlphabet == {"a", ";", " ", "?"}
SolutionAlphabet == {"b", "c", ";", " ", "?"}

(***************************************************************************)
(* The truncated second call of verify_proof: the premises without the     *)
(* goal and the first k steps, all of which passed in the first call.      *)
(***************************************************************************)
TruncatedRerun ==
  /\ entry = "verify_proof"
  /\ call = 1
  /\ pc \in {"done", "raised"}
  /\ \E k \in 1..i :
       /\ problem_txt' = PremsOf(problem_txt)
       /\ proof_dsl' = Join(SubSeq(steps, 1, k), <<";", " ">>)
  /\ call' = 2
  /\ calls1' = calls
  /\ calls' = <<>>
  /\ pc' = "start"
  /\ result' = InitResult
  /\ ret' = FALSE
  /\ steps' = <<>>
  /\ i' = 0
  /\ current_context' = <<>>
  /\ global_goal_dsl' = <<>>
  /\ bfs' = NoFrame
  /\ UNCHANGED <<entry, solution_txt, memo, full_problem_txt, g>>

(***************************************************************************)
(* Specifications.                                                         *)
(***************************************************************************)
InitCommon ==
  /\ pc = "start"
  /\ result = InitResult
  /\ ret = FALSE
  /\ steps = <<>>
  /\ i = 0
  /\ global_goal_dsl = <<>>
  /\ bfs = NoFrame
  /\ memo = {}
  /\ calls = <<>>
  /\ call = 1
  /\ calls1 = <<>>
  /\ full_problem_txt = <<>>

Init ==
  /\ InitCommon
  /\ current_context = <<>>
  /\ g = NoGraph
  /\ problem_txt \in Problems
  /\ \/ /\ entry = "verify_proof"
        /\ proof_dsl \in Proofs
        /\ solution_txt = None
     \/ /\ entry = "verify"
        /\ proof_dsl = <<>>
        /\ solution_txt \in Solutions

Next ==
  \/ VerifyProofStart
  \/ ConstructionStep
  \/ DerivationStep
  \/ BfsLoopHead
  \/ BfsPass
  \/ BfsPost
  \/ BfsFinal
  \/ DerivationReturn
  \/ AllStepsPassed
  \/ FinalGoalReturn
  \/ TruncatedRerun
  \/ VerifyInject
  \/ VerifyBuild
  \/ VerifySolve

Spec == Init /\ [][Next]_vars

InitInject ==
  /\ InitCommon
  /\ current_context = <<>>
  /\ g = NoGraph
  /\ entry = "inject_solution"
  /\ proof_dsl = <<>>
  /\ problem_txt \in Strings(ProblemAlphabet, MaxProblemLen)
  /\ solution_txt \in {None} \cup Strings(SolutionAlphabet, MaxSolutionLen)

NextInject == InjectSolution

InitLoader ==
  /\ InitCommon
  /\ entry = "loader"
  /\ problem_txt = <<>>
  /\ proof_dsl = <<>>
  /\ solution_txt = None
  /\ current_context \in LoaderContexts
  /\ \E facts \in SUBSET BuildFacts :
       g = [nodes |-> BuiltNodes(current_context), facts |-> facts,
            integrated |-> {f \in facts : f.pred \in AlgebraKinds}]

NextLoader ==
  \/ LoaderStart
  \/ LoaderClause
  \/ LoaderReturn

SpecLoader == InitLoader /\ [][NextLoader]_vars

SpecInject == InitInject /\ [][NextInject]_vars

(***************************************************************************)
(* Properties.                                                             *)
(***************************************************************************)
InProof == entry = "verify_proof"

\* the calls of _run_bfs_check made for proof steps, and for the final goal
StepCalls == {j \in 1..Len(calls) : calls[j].step > 0}
FinalCalls == {j \in 1..Len(calls) : calls[j].step = 0}

\* C1: the first derivation step whose check returns False ends verify_proof
\* at once: its check is the last check made, no later step is processed, no
\* final goal check runs, and the record returned has is_valid = False,
\* goal_reached = False and steps_passed = the step's 0-based index.
C1_FailClosedOnFirstError ==
  InProof =>
    \A j \in StepCalls :
      calls[j].ret = "False" =>
        /\ j = Len(calls)
        /\ pc \in {"step_ret", "done"}
        /\ i = calls[j].step - 1
        /\ FinalCalls = {}
        /\ \A m \in 1..(j - 1) : calls[m].ret = "True"
        /\ pc = "done" =>
             /\ result.is_valid = FALSE
             /\ result.goal_reached = FALSE
             /\ result.steps_passed = calls[j].step - 1

\* a run that failed at its second step, after a derivation that passed and
\* before a step that was never looked at
C1_Witness ==
  /\ InProof /\ call = 1 /\ pc = "done"
  /\ Len(steps) = 3
  /\ Len(calls) = 2
  /\ calls[2].step = 2 /\ calls[2].ret = "False"
  /\ result.steps_passed = 1

\* C2: a construction step that is not in the context and whose graph build
\* (context + step) fails ends verify_proof with is_valid = False,
\* goal_reached = False, steps_passed = its 0-based index, and is not
\* appended to the context.
C2_FailedConstructionStops ==
  [][(/\ pc = "loop"
      /\ i < Len(steps)
      /\ is_construction(steps[i + 1])
      /\ ~IsSubstring(steps[i + 1], current_context)
      /\ ~BuildOK(ExtendContext(current_context, steps[i + 1])))
     => (/\ pc' = "done"
         /\ result'.is_valid = FALSE
         /\ result'.goal_reached = FALSE
         /\ result'.steps_passed = i
         /\ current_context' = current_context)]_vars

\* C3: neither verify_proof nor SolutionVerifier.verify ends by raising.
C3_NoErrorEscapes == pc # "raised"

\* C4: when every step passed and the problem has a non-empty goal, exactly
\* one final check runs, on the final context and the stripped goal with
\* max_level = 10; is_valid = goal_reached = its result, steps_passed = the
\* number of steps, and a False result gives the 'final goal NOT reached'
\* message.
C4_FinalGoalCheck ==
  (/\ InProof /\ pc = "done"
   /\ steps # <<>>
   /\ \A j \in StepCalls : calls[j].ret = "True"
   /\ strip(GoalOf(problem_txt)) # <<>>)
  => /\ FinalCalls = {Len(calls)}
     /\ calls[Len(calls)].context_str = current_context
     /\ calls[Len(calls)].target = strip(GoalOf(problem_txt))
     /\ calls[Len(calls)].max_level = GoalMaxLevel
     /\ result.is_valid = (calls[Len(calls)].ret = "True")
     /\ result.goal_reached = result.is_valid
     /\ result.steps_passed = Len(steps)
     /\ calls[Len(calls)].ret = "False" =>
          result.error_msg =
            Msg("All steps valid, but final goal NOT reached.")
     /\ calls[Len(calls)].ret = "True" =>
          result.error_msg =
            Msg("Success: All proof steps valid and goal reached.")

\* all steps passed, a derivation among them, and the goal was not reached
C4_Witness ==
  /\ InProof /\ pc = "done"
  /\ Len(steps) >= 2
  /\ Len(calls) >= 2
  /\ calls[Len(calls)].step = 0 /\ calls[Len(calls)].ret = "False"
  /\ result.steps_passed = Len(steps)
  /\ ~result.is_valid

\* C5: with no '?' in the problem and only valid construction steps,
\* verify_proof makes no check at all and returns is_valid = True,
\* goal_reached = True with the no-global-goal message.
C5_NoGoalConstructions ==
  (/\ InProof /\ pc # "start"
   /\ ~Contains(problem_txt, "?")
   /\ steps # <<>>
   /\ \A j \in 1..Len(steps) :
        is_construction(steps[j]) /\ BuildOK(steps[j]))
  => /\ calls = <<>>
     /\ bfs = NoFrame
     /\ pc \in {"loop", "done"}
     /\ pc = "done" =>
          /\ result.is_valid /\ result.goal_reached
          /\ result.steps_passed = Len(steps)
          /\ result.error_msg = Msg("Verified (No global goal).")

C5_Witness ==
  /\ InProof /\ call = 1 /\ pc = "done"
  /\ ~Contains(problem_txt, "?")
  /\ Len(steps) >= 2
  /\ \A j \in 1..Len(steps) : is_construction(steps[j]) /\ BuildOK(steps[j])
  /\ result.is_valid

\* a proof text made of whitespace and separators only
BlankProof(dsl) == \A k \in 1..Len(dsl) : dsl[k] \in Whitespace \cup {";"}

\* C6: a proof without a non-empty clause gives is_valid = False,
\* goal_reached = False, steps_passed = 0 and 'No proof steps provided.',
\* for every problem, and no check runs.
C6_EmptyProof ==
  (InProof /\ BlankProof(proof_dsl) /\ pc # "start")
  => /\ pc = "done"
     /\ result = [is_valid |-> FALSE, goal_reached |-> FALSE,
                  steps_passed |-> 0,
                  error_msg |-> Msg("No proof steps provided.")]
     /\ calls = <<>>
     /\ memo = {}
     /\ bfs = NoFrame

C6_Witness ==
  /\ InProof /\ pc = "done"
  /\ proof_dsl = <<" ", ";", "\n", ";", " ">>
  /\ Contains(problem_txt, "?")
  /\ result.error_msg = Msg("No proof steps provided.")

\* C7: the second call, on the premises without goal and the first k steps
\* (all passed in the first call), makes the same checks with the same
\* verdicts as the first call made for these steps, and returns
\* steps_passed = k and is_valid = True.
C7_TruncatedProofValid ==
  (InProof /\ call = 2)
  => /\ pc # "raised"
     /\ Len(calls) <= Len(calls1)
     /\ calls = SubSeq(calls1, 1, Len(calls))
     /\ pc = "done" =>
          /\ result.steps_passed = Len(ProofSteps(proof_dsl))
          /\ result.is_valid
          /\ result.goal_reached

\* the truncated call is done, after a first call that went on to fail
C7_Witness ==
  /\ InProof /\ call = 2 /\ pc = "done"
  /\ Len(steps) = 2
  /\ Len(calls) >= 1
  /\ Len(calls1) > Len(calls)
  /\ calls1[Len(calls1)].ret = "False"
  /\ result.is_valid

(***************************************************************************)
(* Properties of inject_solution.                                          *)
(***************************************************************************)
InjectDone == entry = "inject_solution" /\ pc = "done"

\* the non-empty clauses of a premises or solution text, stripped, in order
ClausesOf(txt) == StripNonEmpty(split(txt, ";"))

\* s without the ';' at its end: its longest prefix that does not end in ';'
WithoutTrailingSemicolons(s) ==
  SubSeq(s, 1, CHOOSE n \in 0..Len(s) :
                 /\ n = 0 \/ s[n] # ";"
                 /\ \A m \in (n + 1)..Len(s) : s[m] = ";")

\* every clause of the text is non-empty, but for ';' at its very end
CleanClauses(txt) ==
  LET pieces == split(WithoutTrailingSemicolons(strip(txt)), ";")
  IN \A k \in 1..Len(pieces) : strip(pieces[k]) # <<>>

\* the solution is not None and has more to it than whitespace and a
\* trailing ';'
NonEmptySolution ==
  /\ solution_txt # None
  /\ WithoutTrailingSemicolons(strip(solution_txt)) # <<>>

\* C8: with a non-empty solution the result is '<premises>; <solution> ?
\* <goal>', split on the first '?', or '<problem>; <solution>' without '?';
\* a trailing ';' of premises and solution is dropped; for a solution
\* without '?' the goal is unchanged, the solution's clauses follow the
\* premises' clauses in order, and clean premises and solution give no
\* empty clause.
C8_InjectPlacement ==
  (InjectDone /\ NonEmptySolution)
  => LET prob == strip(problem_txt)
         premises == WithoutTrailingSemicolons(strip(PremsOf(prob)))
         sol == WithoutTrailingSemicolons(strip(solution_txt))
         out == full_problem_txt
     IN /\ out = premises \o <<";", " ">> \o sol
                   \o (IF Contains(prob, "?")
                       THEN <<" ", "?", " ">> \o strip(GoalOf(prob))
                       ELSE <<>>)
        /\ ~Contains(solution_txt, "?") =>
             /\ Contains(out, "?") = Contains(problem_txt, "?")
             /\ strip(GoalOf(out)) = strip(GoalOf(problem_txt))
             /\ ClausesOf(PremsOf(out)) =
                  ClausesOf(PremsOf(problem_txt)) \o ClausesOf(solution_txt)
             /\ (CleanClauses(PremsOf(prob)) /\ CleanClauses(solution_txt))
                  => CleanClauses(PremsOf(out))
                     /\ WithoutTrailingSemicolons(strip(PremsOf(out)))
                          = strip(PremsOf(out))

\* premises with a trailing ';', a goal, and a solution of two clauses
C8_Witness ==
  /\ InjectDone
  /\ problem_txt = <<"a", ";", "?", "a">>
  /\ solution_txt = <<"b", ";", "c">>
  /\ full_problem_txt =
       <<"a", ";", " ", "b", ";", "c", " ", "?", " ", "a">>

\* a solution that is None, empty, whitespace, or only ';' at its end
AbsentSolution ==
  \/ solution_txt = None
  \/ \A k \in 1..Len(strip(solution_txt)) : strip(solution_txt)[k] = ";"

\* C9: for an absent solution inject_solution returns the stripped problem,
\* the very text it returns for None, so verify sees the bare problem.
C9_EmptySolutionIdentity ==
  (InjectDone /\ AbsentSolution)
  => /\ full_problem_txt = strip(problem_txt)
     /\ full_problem_txt = inject_solution(problem_txt, None)

C9_Witness ==
  /\ InjectDone
  /\ solution_txt = <<" ", ";", ";">>
  /\ problem_txt = <<" ", "a", "?", "a">>
  /\ full_problem_txt = <<"a", "?", "a">>

\* a problem text up to whitespace and ';': its premises' non-empty
\* clauses, whether it has a goal separator, and its goal
Normalize(txt) ==
  [clauses |-> ClausesOf(PremsOf(txt)),
   has_goal |-> Contains(txt, "?"),
   goal |-> strip(GoalOf(txt))]

\* a solution of non-empty clauses, without goal separator
WellFormedSolution ==
  /\ solution_txt # None
  /\ ~Contains(solution_txt, "?")
  /\ ClausesOf(solution_txt) # <<>>
  /\ CleanClauses(solution_txt)

\* C10: taking the solution's clauses off the end of the premises of
\* inject_solution(problem, solution) gives the original problem up to
\* whitespace and ';': same premises clauses in the same order, same goal.
C10_InjectRoundTrip ==
  (InjectDone /\ WellFormedSolution)
  => LET got == Normalize(full_problem_txt)
         n == Len(ClausesOf(solution_txt))
         m == Len(got.clauses)
     IN /\ m >= n
        /\ SubSeq(got.clauses, m - n + 1, m) = ClausesOf(solution_txt)
        /\ [got EXCEPT !.clauses = SubSeq(got.clauses, 1, m - n)]
             = Normalize(problem_txt)

\* two premises clauses, no goal, and a solution of two clauses
C10_Witness ==
  /\ InjectDone
  /\ problem_txt = <<"a", ";", " ", "a">>
  /\ solution_txt = <<"c", ";", "b">>
  /\ Len(ClausesOf(PremsOf(full_problem_txt))) = 4

\* C12: a construction step whose text is already in the context (in the
\* premises or from an earlier accepted step) is passed over: the context is
\* left as it is, no check is made and no graph is built for it, the loop
\* goes on to the next step, and the step is counted (the step index, from
\* which steps_passed is taken, advances by one).
C12_PresentConstructionIsNoOp ==
  [][(/\ InProof
      /\ pc = "loop"
      /\ i < Len(steps)
      /\ is_construction(steps[i + 1])
      /\ IsSubstring(steps[i + 1], current_context))
     => (/\ current_context' = current_context
         /\ i' = i + 1
         /\ pc' = "loop"
         /\ calls' = calls
         /\ bfs' = bfs
         /\ memo' = memo
         /\ result' = result)]_vars

\* the proof 'd = k; p a' on premises that already hold 'd = k': both steps
\* are counted and the context holds 'd = k' once
C12_Witness ==
  /\ InProof
  /\ call = 1
  /\ pc = "done"
  /\ steps = <<ConsK, DerivP>>
  /\ IsSubstring(ConsK, InitialContext(problem_txt))
  /\ result.steps_passed = 2
  /\ current_context = InitialContext(problem_txt) \o <<";", " ">> \o DerivP

InVerify == entry = "verify"

\* Problem.from_txt raised on the injected text
InjectedParseFailed ==
  \E m \in memo : m.txt = full_problem_txt /\ m.profile.kind = "parse_fail"

\* C13: once verify has injected the solution, a problem text without a goal
\* and a problem text that fails to parse both end the call with False: the
\* call is over, it neither raised nor went on to build the graph or to run
\* the solver, whatever the solution text is.
C13_NoGoalOrParseFailureIsFalse ==
  (/\ InVerify
   /\ pc # "start"
   /\ ProblemGoalIsNone(full_problem_txt) \/ InjectedParseFailed)
  => (pc = "done" /\ ret = FALSE)

\* a problem without goal, given a solution: parsed, and False is returned
C13_Witness ==
  /\ InVerify
  /\ pc = "done"
  /\ ~Contains(problem_txt, "?")
  /\ solution_txt = ConsK
  /\ ~InjectedParseFailed
  /\ ProblemGoalIsNone(full_problem_txt)
  /\ ret = FALSE

BfsPcs == {"bfs_loop", "bfs_pass", "bfs_post", "bfs_final"}
InCheck == InProof /\ pc \in BfsPcs

\* how far one check has come: three positions a level, the final test last
CheckRank ==
  3 * bfs.level + (CASE pc = "bfs_loop" -> 0
                     [] pc = "bfs_pass" -> 1
                     [] pc = "bfs_post" -> 2
                     [] OTHER -> 1)

\* a check under way: the levels go 1, 2, ... with one pass each, never more
\* than max_level passes, and no pass is started while the target holds
CheckInLevelOrder ==
  InCheck =>
    /\ bfs.level \in 1..(bfs.max_level + 1)
    /\ bfs.passes <= bfs.max_level
    /\ bfs.passes = (IF pc = "bfs_post" THEN bfs.level ELSE bfs.level - 1)
    /\ pc \in {"bfs_pass", "bfs_post"} => bfs.level <= bfs.max_level
    /\ pc = "bfs_final" => bfs.level = bfs.max_level + 1
    /\ pc = "bfs_pass" => ~goal_holds

\* a check that is over: True exactly when the target came to hold within
\* max_level passes, and then after exactly that many passes; False of a
\* graph that was built only after max_level passes
CheckAnswer ==
  InProof =>
    \A j \in 1..Len(calls) :
      /\ calls[j].ret = "True" <=>
           (calls[j].kind = "ok" /\ calls[j].need <= calls[j].max_level)
      /\ calls[j].ret = "True" => calls[j].passes = calls[j].need
      /\ (calls[j].ret = "False"
            /\ calls[j].kind \notin {"parse_fail", "build_fail"})
           => calls[j].passes = calls[j].max_level

\* C14: one check runs its passes at levels 1, 2, ... in order, at most
\* max_level of them, tests the target before and after each pass, returns
\* True at the first test at which the target holds without a further pass,
\* and otherwise answers after the last level; every step of a check moves
\* it forward, so it ends.
C14_LevelLoop ==
  /\ [](CheckInLevelOrder /\ CheckAnswer)
  /\ [][(InCheck /\ InCheck') => CheckRank' > CheckRank]_vars

\* a step check that returned True after its third and last pass, and a
\* final check that returned False after ten passes
C14_Witness ==
  /\ InProof
  /\ \E j \in StepCalls :
       calls[j].ret = "True" /\ calls[j].passes = StepMaxLevel
  /\ \E j \in FinalCalls :
       calls[j].ret = "False" /\ calls[j].passes = GoalMaxLevel

\* C15: once a pass has yielded no new fact of any kind while the target
\* does not hold, the check starts no further pass.
C15_SaturationStops ==
  InCheck => ~(pc = "bfs_pass" /\ bfs.idle >= 1)

\* C16: a rule-engine pass (or its algebraic integration) that raises is
\* taken as a level that produced nothing: the check it belongs to still
\* ends by returning True or False, and nothing is raised to the caller.
C16_PassErrorIsSkipped ==
  InProof =>
    \A j \in 1..Len(calls) :
      calls[j].kind = "pass_raise" => calls[j].ret \in {"True", "False"}

\* the errors of one check that are to count as a failed step: parse error,
\* construction error, unknown object, unsupported predicate or malformed
\* fact
StepErrorKinds == {"parse_fail", "build_fail", "names_raise", "check_raise"}

\* C17: a derivation step whose check meets a parse error, a construction
\* error, an unknown object, an unsupported predicate or a malformed fact
\* fails as a step: its check answers False, and verify_proof returns
\* is_valid = False, steps_passed = the step's 0-based index and the Logic
\* Gap message of that step.
C17_StepErrorIsLogicGap ==
  InProof =>
    \A j \in StepCalls :
      calls[j].kind \in StepErrorKinds =>
        /\ calls[j].ret = "False"
        /\ j = Len(calls)
        /\ pc \in {"step_ret", "done"}
        /\ pc = "done" =>
             result = [is_valid |-> FALSE, goal_reached |-> FALSE,
                       steps_passed |-> calls[j].step - 1,
                       error_msg |-> LogicGapMsg(calls[j].step,
                                                 steps[calls[j].step])]

InLoader == entry = "loader"

LoaderClauses == Range(StripNonEmpty(split(current_context, ";")))

\* a clause the loader is to make hold: not a construction, a predicate
\* name with arguments, every argument a point of the graph, and a
\* predicate name the graph can assert
Loadable(c) ==
  /\ ~Contains(c, "=")
  /\ Len(words(c)) >= 2
  /\ NamesResolve(g, Tail(words(c)))
  /\ words(c)[1] \in AddKinds \cap CheckKinds

LoaderPostCondition ==
  InLoader =>
    /\ pc # "raised"
    /\ g.nodes = BuiltNodes(current_context)
    /\ pc = "done" =>
         \A c \in LoaderClauses :
           Loadable(c) => Holds(g, words(c)[1], Tail(words(c)))
    /\ \A f \in g.facts :
         \/ f \in BuildFacts
         \/ /\ f.rule_name = "verified"
            /\ f.level = 0
            /\ \E c \in LoaderClauses :
                 Loadable(c) /\ f.pred = words(c)[1] /\ f.args = Tail(words(c))
            /\ \A f2 \in g.facts :
                 (f2.pred = f.pred /\ f2.args = f.args) => f2 = f

\* C18: the context loader never raises and never changes the points of
\* the graph; it only adds facts; when it is done every clause that is not
\* a construction, whose names resolve and whose predicate kind is known
\* holds; whatever it added has the level-0 'verified' justification, is
\* such a clause of the context, and did not hold before (a fact is in the
\* graph once); every other clause leaves the graph as it is.
C18_ContextLoader ==
  /\ []LoaderPostCondition
  /\ [][InLoader => (g'.nodes = g.nodes /\ g.facts \subseteq g'.facts)]_vars

\* the loader is done with 'a = t; d = k; p d' on a graph in which 'p a'
\* held: 'p d' is asserted as verified, 'p a' is kept as it was
C18_Witness ==
  /\ InLoader
  /\ pc = "done"
  /\ current_context = Join(<<PremA, ConsK, <<"p", " ", "d">>>>, <<";", " ">>)
  /\ g.facts = BuildFacts
       \cup {[pred |-> <<"p">>, args |-> <<<<"d">>>>,
              rule_name |-> "verified", level |-> 0]}

\* between two checks verify_proof holds no graph
NoGraphBetweenChecks ==
  (InProof /\ pc \in {"start", "loop", "step_ret", "goal_ret", "done"})
    => bfs = NoFrame

\* every check starts at level 1 on a graph built from the context text of
\* that moment, on which no pass has run
CheckStartsFresh ==
  (InProof /\ pc \notin BfsPcs /\ pc' \in BfsPcs) =>
    /\ bfs'.passes = 0
    /\ bfs'.idle = 0
    /\ bfs'.level = 1
    /\ bfs'.context_str = rstrip(strip(current_context), ";")
    /\ current_context' = current_context

\* C19: every check of verify_proof builds a graph of its own from the
\* context text: none is kept between checks, each check starts on a graph
\* without any pass, so only the clauses of the context reach a later
\* check, and a check that is over (failed or not) leaves no graph behind.
C19_FreshGraphPerCheck ==
  /\ []NoGraphBetweenChecks
  /\ [][CheckStartsFresh]_vars

\* the check of the second step starts without any pass, after the check of
\* the first step has run three passes
C19_Witness ==
  /\ InProof
  /\ pc = "bfs_loop"
  /\ bfs.step = 2
  /\ bfs.passes = 0
  /\ Len(calls) = 1
  /\ calls[1].passes = StepMaxLevel

\* the premises followed by the first k steps of the proof, in proof order,
\* a construction that is already there left out
RECURSIVE LogOf(_)
LogOf(k) ==
  IF k = 0 THEN strip(PremsOf(problem_txt))
  ELSE LET before == LogOf(k - 1)
           step == steps[k]
       IN IF Contains(step, "=") /\ IsSubstring(step, before) THEN before
          ELSE before \o <<";", " ">> \o step

IsPrefix(s, t) == Len(s) <= Len(t) /\ SubSeq(t, 1, Len(s)) = s

\* the context is the log of the steps accepted so far; every derivation
\* step among them has a check that returned True; every check was given
\* the log of the steps before it
ContextIsLog ==
  (InProof /\ pc # "start") =>
    /\ i <= Len(steps)
    /\ current_context = LogOf(i)
    /\ \A k \in 1..i :
         ~Contains(steps[k], "=") =>
           \E j \in StepCalls : calls[j].step = k /\ calls[j].ret = "True"
    /\ \A j \in StepCalls :
         /\ calls[j].context_str = LogOf(calls[j].step - 1)
         /\ calls[j].ret # "True" => calls[j].step = i + 1
    /\ \A j \in FinalCalls : calls[j].context_str = LogOf(Len(steps))

\* every construction step among the accepted ones was appended after its
\* own check, the graph build of the context with the step, succeeded
ConstructionsChecked ==
  (InProof /\ pc # "start") =>
    \A k \in 1..i :
      (Contains(steps[k], "=") /\ ~IsSubstring(steps[k], LogOf(k - 1)))
        => BuildOK(LogOf(k))

\* C20: at every point of verify_proof the context is the premises followed
\* by the accepted steps processed so far, in proof order, each once and
\* each appended only after its own check succeeded (for a derivation the
\* check that returned True, for a construction the graph build of the
\* context with it); a derivation whose check failed is in no context given
\* to a check.
C20_LogOfCheckedSteps == ContextIsLog /\ ConstructionsChecked

\* the sub-predicates of a derivation step, in order
SubPredicates(step) == StripNonEmpty(split(step, ","))

\* C21: a derivation step is checked sub-predicate by sub-predicate: the
\* target of every check made for a step is one of the comma-separated
\* sub-predicates of that step, and a step that passed has had one check
\* returning True for each of them, in order.
C21_SubPredicatesCheckedInTurn ==
  InProof =>
    /\ \A j \in StepCalls :
         strip(calls[j].target)
           \in Range(SubPredicates(steps[calls[j].step]))
    /\ \A k \in 1..i :
         ~Contains(steps[k], "=") =>
           LET mine == SelectSeq(calls, LAMBDA c : c.step = k)
           IN /\ Len(mine) = Len(SubPredicates(steps[k]))
              /\ \A n \in 1..Len(mine) :
                   /\ strip(mine[n].target) = SubPredicates(steps[k])[n]
                   /\ mine[n].ret = "True"

\* C22: every angle or ratio fact that the context loader puts into the
\* graph has gone through the integration into the algebraic tables: no
\* verified fact of such a kind is in the graph without being integrated.
C22_ContextFactsIntegrated ==
  InLoader =>
    \A f \in g.facts :
      (f.rule_name = "verified" /\ f.pred \in AlgebraKinds)
        => f \in g.integrated

\* C23: the record verify_proof returns is consistent: goal_reached equals
\* is_valid; steps_passed lies between 0 and the number of proof steps; a
\* valid record counts every step of a proof that has at least one; a
\* record that counts fewer steps than the proof has is not valid; and the
\* message is never empty.
C23_ResultRecordConsistent ==
  (InProof /\ pc = "done") =>
    /\ result.goal_reached = result.is_valid
    /\ result.steps_passed \in 0..Len(steps)
    /\ result.is_valid =>
         (result.steps_passed = Len(steps) /\ Len(steps) >= 1)
    /\ result.steps_passed < Len(steps) => ~result.is_valid
    /\ result.error_msg.text # ""

\* every step of a two-step proof passed and the final goal check failed:
\* the record counts both steps and is not valid
C23_Witness ==
  /\ InProof
  /\ call = 1
  /\ pc = "done"
  /\ Len(steps) = 2
  /\ result.steps_passed = 2
  /\ ~result.is_valid
  /\ ~result.goal_reached
  /\ FinalCalls # {}
  /\ result.error_msg = Msg("All steps valid, but final goal NOT reached.")

====
